---------------------------- MODULE Spec2Model ----------------------------
(***************************************************************************)
(* State-machine model of wasserstein/EMD.hh: the single-pair solver _EMD  *)
(* and the pairwise orchestrator PairwiseEMD.                               *)
(*                                                                         *)
(* Values (double in the source) are integers here; a weight divided by    *)
(* the scale is kept as the exact fraction <<numerator, denominator>>.     *)
(* The transport solver (NetworkSimplex), the ground-distance provider and *)
(* the Event class are collaborators outside EMD.hh: the status and total  *)
(* cost of a solver run are drawn from small sets at every call (the cost  *)
(* of an event against itself is zero).                                    *)
(***************************************************************************)
EXTENDS Integers, Sequences, FiniteSets, Bags, TLC

(***************************************************************************)
(* Bounds of the model.                                                    *)
(***************************************************************************)
\* largest number of events in the triangular enumeration walk
MaxEnumN == 9

\* largest number of events a batch puts in the event store
MaxEvents == 3

\* the thread count of the OpenMP build (1 without OpenMP)
OmpThreads == 2

\* the largest number of events held in the runs with request mode
MaxRequestEvents == 2

\* the most preprocessors registered on one solver instance
MaxPreprocessors == 2

\* the print_every arguments given to the constructor of the OpenMP build
PrintEveryArgs == {-2, 0, 2}
\* the arguments of set_omp_dynamic_chunksize
ChunksizeArgs == {-1}
\* the statuses and total costs the transport solver reports inside a batch
BatchStatuses == {0, 2}
BatchCosts == {1}

\* the particle weights of the events handed to a stand-alone _EMD
SoloWeightVectors == {<<>>, <<1>>, <<2>>, <<1, 1>>, <<1, 2>>}
\* total costs the transport solver may report
Costs == {1, 3}

(***************************************************************************)
(* enum class EMDStatus (values listed at _EMD::compute) and ExtraParticle *)
(***************************************************************************)
Success == 0
Empty == 1
SupplyMismatch == 2
Unbounded == 3
MaxIterReached == 4
Infeasible == 5
EMDStatus == {Success, Empty, SupplyMismatch, Unbounded, MaxIterReached, Infeasible}

ExtraParticle == {"Neither", "Zero", "One"}

(***************************************************************************)
(* Generic helpers.                                                        *)
(***************************************************************************)
Max(a, b) == IF a >= b THEN a ELSE b

Abs(a) == IF a < 0 THEN -a ELSE a

RECURSIVE SumSeq(_)
SumSeq(s) == IF s = <<>> THEN 0 ELSE Head(s) + SumSeq(Tail(s))

(***************************************************************************)
(* Event (EventBase, outside EMD.hh): a weight per particle and a scalar   *)
(* event weight.  total_weight() is the sum of the particle weights.       *)
(***************************************************************************)
total_weight(ev) == SumSeq(ev.weights)

\* the events a stand-alone _EMD is run on
SoloEvents == {[weights |-> ws, event_weight |-> 1] : ws \in SoloWeightVectors}

(***************************************************************************)
(* _EMD                                                                    *)
(***************************************************************************)
\* the trailing slot of the weight buffer: compute resizes the buffer to
\* n0 + n1 + 1 and never assigns the last slot, which holds zero or what an
\* earlier call left there
Slack == <<0, 0>>

\* a weight buffer entry: the fraction num/den
Frac(num, den) == <<num, den>>

\* w /= scale
DivBy(f, s) == <<f[1], f[2] * s>>

\* the sum of fractions that share one denominator, as <<num, den>>
RECURSIVE SumNum(_)
SumNum(fs) == IF fs = <<>> THEN 0 ELSE Head(fs)[1] + SumNum(Tail(fs))

\* _EMD::_EMD: scale_ is 1 after construction; nothing has been computed
NewEMD(norm, external_dists) ==
  [norm |-> norm, external_dists |-> external_dists,
   n0 |-> 0, n1 |-> 0, extra |-> "Neither", weightdiff |-> 0, scale |-> 1,
   weights |-> <<>>, emd |-> 0, status |-> Success, total_cost |-> 0,
   preprocessors |-> <<>>]

\* the branch of the weight-balancing policy that compute takes (faulty variant:
\* the padding point goes to the heavier event)
ExtraForSwapped(norm, external_dists, weightdiff) ==
  IF norm \/ external_dists \/ weightdiff = 0 THEN "Neither"
  ELSE IF weightdiff > 0 THEN "One" ELSE "Zero"

\* the branch of the weight-balancing policy that compute takes
ExtraFor(norm, external_dists, weightdiff) ==
  IF norm \/ external_dists \/ weightdiff = 0 THEN "Neither"
  ELSE IF weightdiff > 0 THEN "Zero" ELSE "One"

\* the weight buffer before scaling (faulty variant: no padding weight is written)
RawWeightsNoPad(ws0, ws1, weightdiff, extra) == ws0 \o ws1

\* the weight buffer before scaling, without its trailing slot
RawWeights(ws0, ws1, weightdiff, extra) ==
  IF extra = "Neither" THEN ws0 \o ws1
  ELSE IF extra = "Zero" THEN ws0 \o <<weightdiff>> \o ws1
  ELSE ws0 \o ws1 \o <<-weightdiff>>

\* the reported distance (faulty variant: the cost is never rescaled)
ScaledCostNever(status, norm, total_cost, scale) == total_cost

\* the reported distance: the cost, times scale on Success when not normed
ScaledCost(status, norm, total_cost, scale) ==
  IF status = Success /\ ~norm THEN total_cost * scale ELSE total_cost

\* _EMD::compute(ev0, ev1), the transport solver returning st and cost
EMDCompute(obj, ev0, ev1, st, cost) ==
  LET ws0 == ev0.weights
      ws1 == ev1.weights
      wd == total_weight(ev1) - total_weight(ev0)
      ex == ExtraFor(obj.norm, obj.external_dists, wd)
      n0 == Len(ws0) + (IF ex = "Zero" THEN 1 ELSE 0)
      n1 == Len(ws1) + (IF ex = "One" THEN 1 ELSE 0)
      raw == RawWeights(ws0, ws1, wd, ex)
      sc == IF obj.norm THEN obj.scale
            ELSE Max(total_weight(ev0), total_weight(ev1))
      buf == [p \in 1..Len(raw) |->
                IF obj.norm THEN Frac(raw[p], 1) ELSE DivBy(Frac(raw[p], 1), sc)]
  IN [obj EXCEPT !.n0 = n0, !.n1 = n1, !.extra = ex, !.weightdiff = wd,
                 !.scale = sc, !.weights = buf \o <<Slack>>,
                 !.status = st, !.total_cost = cost,
                 !.emd = ScaledCost(st, obj.norm, cost, sc)]

\* the weights of side 0 and of side 1 in the solver's weight buffer
Side0(obj) == SubSeq(obj.weights, 1, obj.n0)
Side1(obj) == SubSeq(obj.weights, obj.n0 + 1, obj.n0 + obj.n1)

(***************************************************************************)
(* PairwiseEMD: the pure index computations                                *)
(***************************************************************************)
\* init(nev): num_emds_ = nev*(nev - 1)/2
NumSelfPairs(nev) == (nev * (nev - 1)) \div 2

\* the coordinates of flat index k in a self-pairs batch (faulty variant: the
\* reflection test compares before the increment of i)
SelfPairLateIncrement(k, nev) ==
  LET i == k \div nev
      j == k % nev
  IN IF j >= i THEN <<nev - (i + 1), nev - j - 1>> ELSE <<i + 1, j>>

\* (faulty variant: the coordinates are never reflected)
SelfPairNoReflect(k, nev) == <<(k \div nev) + 1, k % nev>>

\* the coordinates of flat index k in a self-pairs batch:
\* i(k/nevB()), j(k%nevB()); if (j >= ++i) { i = nevA() - i; j = nevA() - j - 1; }
SelfPair(k, nev) ==
  LET i == (k \div nev) + 1
      j == k % nev
  IN IF j >= i THEN <<nev - i, nev - j - 1>> ELSE <<i, j>>

\* the coordinates of flat index k in a cross-pairs batch
CrossPair(k, nevB) == <<k \div nevB, k % nevB>>

\* the events of a batch: event p of the first (or only) collection and of
\* the second collection; the event weights make every product of two
\* event weights name its pair
EventA(p) == [weights |-> IF p % 2 = 0 THEN <<1>> ELSE <<1, 1>>,
              event_weight |-> p + 2]
EventB(p) == [weights |-> <<2>>, event_weight |-> p + MaxEvents + 4]
EventsA(n) == [p \in 1..n |-> EventA(p - 1)]
EventsB(n) == [p \in 1..n |-> EventB(p - 1)]

\* (faulty variant: a negative index is left as it is)
ResolveIndexNoWrap(i, n) == i

\* if (i < 0) i += nevA(); if (j < 0) j += nevB();  (the same in _EMD::flow)
ResolveIndex(i, n) == IF i < 0 THEN i + n ELSE i

\* std::vector read: element idx (from 0) of v
At(v, idx) == v[idx + 1]

\* a read or write of v[idx] is inside the vector
InBounds(v, idx) == idx >= 0 /\ idx < Len(v)

\* std::vector::resize(n) with value-initialised new elements
Resize(v, n) == [p \in 1..n |-> IF p <= Len(v) THEN v[p] ELSE 0]

\* (faulty variant: the offset inside a row is not reduced by one)
index_symmetricOffByOne(i, j, num_emds, nevA) ==
  IF j > i THEN num_emds - ((nevA - i) * (nevA - i - 1)) \div 2 + j - i
  ELSE IF i > j THEN num_emds - ((nevA - j) * (nevA - j - 1)) \div 2 + i - j
  ELSE -1

\* index_symmetric(i, j)
index_symmetric(i, j, num_emds, nevA) ==
  IF j > i THEN num_emds - ((nevA - i) * (nevA - i - 1)) \div 2 + j - i - 1
  ELSE IF i > j THEN num_emds - ((nevA - j) * (nevA - j - 1)) \div 2 + i - j - 1
  ELSE -1

\* (faulty variant: a negative print_every_ resolves to the quotient, never
\* rounded up)
ResolvedPrintEveryFloor(print_every, num_emds) ==
  IF print_every < 0 THEN num_emds \div Abs(print_every) ELSE print_every

\* the chunk size compute() resolves from print_every_
ResolvedPrintEvery(print_every, num_emds) ==
  IF print_every < 0
  THEN LET q == num_emds \div Abs(print_every)
       IN IF q = 0 \/ num_emds % Abs(print_every) # 0 THEN q + 1 ELSE q
  ELSE print_every

\* the test of the loop over chunks (faulty variant: a recorded failure never stops
\* the dispatch of further chunks)
LoopContinuesIgnoringErrors(emd_counter, num_emds, throw_on_error, nerrors) ==
  emd_counter < num_emds

\* (faulty variant: a recorded failure stops the dispatch of further chunks
\* whether or not throw_on_error_ is set)
LoopContinuesUnlessFailed(emd_counter, num_emds, throw_on_error, nerrors) ==
  emd_counter < num_emds /\ nerrors = 0

\* the test of the loop over chunks:
\* emd_counter_ < num_emds() && !(throw_on_error_ && error_messages().size())
LoopContinues(emd_counter, num_emds, throw_on_error, nerrors) ==
  emd_counter < num_emds /\ ~(throw_on_error /\ nerrors > 0)

\* the message compute() throws (faulty variant: the latest record)
RaisedMessageLast(error_messages) == error_messages[Len(error_messages)]

\* the message compute() throws: error_messages_.front()
RaisedMessage(error_messages) == Head(error_messages)

\* the record record_failure appends: the pair's indices and int(status)
FailureRecord(status, i, j) == [i |-> i, j |-> j, code |-> status]

\* the storage mode init selects (faulty variant: a registered handler is ignored)
StorageAfterInitNoHandler(two_sets, handler, request_mode, flattened, old) ==
  IF ~request_mode
  THEN IF two_sets THEN "Full"
       ELSE IF flattened THEN "FlattenedSymmetric" ELSE "FullSymmetric"
  ELSE old

\* the storage mode after init: clear(false) sets External unless in request
\* mode, and an internal mode is selected without handler and request mode
StorageAfterInit(two_sets, handler, request_mode, flattened, old) ==
  IF ~handler /\ ~request_mode
  THEN IF two_sets THEN "Full"
       ELSE IF flattened THEN "FlattenedSymmetric" ELSE "FullSymmetric"
  ELSE IF ~request_mode THEN "External" ELSE old

\* the size init gives emds_
EmdsSizeAfterInit(storage, nevA, nevB, num_emds) ==
  IF storage = "FullSymmetric" THEN nevA * nevB ELSE num_emds

\* the pairs (i, j) the fill loop of emds() visits, in its order:
\* for i < nevA, for j = i + 1 .. nevB - 1
RECURSIVE UpperPairs(_, _, _, _)
UpperPairs(i, j, nevA, nevB) ==
  IF i >= nevA THEN <<>>
  ELSE IF j >= nevB THEN UpperPairs(i + 1, i + 2, nevA, nevB)
  ELSE <<<<i, j>>>> \o UpperPairs(i, j + 1, nevA, nevB)

\* the writes <<index, value>> of one fill step (faulty variant: the entry below the
\* diagonal is not written)
FillWritesUpperOnly(i, j, nevB, v) == <<<<i * nevB + j, v>>>>

\* the writes <<index, value>> of one fill step:
\* full_emds_[i*nevB() + j] = full_emds_[j*nevB() + i] = emds_[index_symmetric(i, j)]
FillWrites(i, j, nevB, v) == <<<<j * nevB + i, v>>, <<i * nevB + j, v>>>>

\* the reads of emds_ the fill loop makes, as indices
DenseReads(nevA, nevB, num_emds) ==
  LET ps == UpperPairs(0, 1, nevA, nevB)
  IN {index_symmetric(ps[q][1], ps[q][2], num_emds, nevA) : q \in 1..Len(ps)}

\* every write of emds(): zero at i*i for each i < nevA, then the fill loop
RECURSIVE FillAll(_, _, _, _, _)
FillAll(ps, nevA, nevB, num_emds, emds) ==
  IF ps = <<>> THEN <<>>
  ELSE FillWrites(Head(ps)[1], Head(ps)[2], nevB,
                  At(emds, index_symmetric(Head(ps)[1], Head(ps)[2], num_emds, nevA)))
       \o FillAll(Tail(ps), nevA, nevB, num_emds, emds)

DenseWrites(nevA, nevB, num_emds, emds) ==
  [q \in 1..nevA |-> <<(q - 1) * (q - 1), 0>>]
  \o FillAll(UpperPairs(0, 1, nevA, nevB), nevA, nevB, num_emds, emds)

\* a vector after a sequence of writes <<index, value>>, the last one winning
RECURSIVE ApplyWrites(_, _)
ApplyWrites(v, ws) ==
  IF ws = <<>> THEN v
  ELSE ApplyWrites([v EXCEPT ![Head(ws)[1] + 1] = Head(ws)[2]], Tail(ws))

\* emds() in FlattenedSymmetric mode stays inside emds_ and full_emds_
DenseInBounds(nevA, nevB, num_emds, emds) ==
  /\ \A idx \in DenseReads(nevA, nevB, num_emds) : idx >= 0 /\ idx < Len(emds)
  /\ \A q \in 0..(nevA - 1) : q * q < nevA * nevB
  /\ \A q \in 1..Len(UpperPairs(0, 1, nevA, nevB)) :
       LET pr == UpperPairs(0, 1, nevA, nevB)[q]
       IN pr[2] * nevB + pr[1] < nevA * nevB /\ pr[1] * nevB + pr[2] < nevA * nevB

\* the dense view emds() returns in FlattenedSymmetric mode: full_emds_
\* resized to nevA*nevB, then written
DenseView(full, nevA, nevB, num_emds, emds) ==
  ApplyWrites(Resize(full, nevA * nevB), DenseWrites(nevA, nevB, num_emds, emds))

VARIABLES
  emd,        \* a stand-alone _EMD instance
  emd_call,   \* the last call on it: its arguments and how it ended
  tri,        \* a walk of the flat index over the triangular enumeration
  \* PairwiseEMD data members
  num_threads_, omp_dynamic_chunksize_, emd_objs_, print_every_, handler_,
  store_sym_emds_flattened_, throw_on_error_, request_mode_,
  events_, emds_, full_emds_, error_messages_,
  nevA_, nevB_, num_emds_, emd_counter_, emd_storage_, two_event_sets_,
  \* the frame of a running PairwiseEMD::compute()
  pc,             \* "idle", "loop" (at the while test) or "parallel"
  begin,          \* local begin
  print_every,    \* local print_every, resolved
  next_k,         \* the next flat index the dynamic schedule hands out
  workers,        \* per thread: where it stands and its block [k, hi)
  failure_mutex,  \* the thread holding failure_mutex, or -1
  \* what the callers and collaborators observe
  ret,            \* how the last call on the orchestrator ended
  computed,       \* the solver runs of the current batch
  handled,        \* the bag of (distance, weight) the handler got in the batch
  batch           \* the last batch call since construction or clear()

soloVars == <<emd, emd_call>>
configVars == <<num_threads_, omp_dynamic_chunksize_, print_every_, handler_,
                store_sym_emds_flattened_, throw_on_error_, request_mode_>>
storeVars == <<events_, emds_, full_emds_, error_messages_,
               nevA_, nevB_, num_emds_, emd_counter_, emd_storage_, two_event_sets_>>
frameVars == <<pc, begin, print_every, next_k, workers, failure_mutex>>
seenVars == <<ret, computed, handled, batch>>
orchVars == <<configVars, emd_objs_, storeVars, frameVars, seenVars>>
vars == <<emd, emd_call, tri, orchVars>>

NoCall == [op |-> "none"]
NoWalk == [nev |-> 0, k |-> 0, out |-> <<>>]
NoRet == [op |-> "none"]
NoBatch == [op |-> "none"]

Threads == 0..(num_threads_ - 1)
Ready == [pc |-> "ready", k |-> 0, hi |-> 0]
Zeros(n) == [p \in 1..n |-> 0]
Min(a, b) == IF a <= b THEN a ELSE b

(***************************************************************************)
(* PairwiseEMD: construction                                               *)
(***************************************************************************)
\* PairwiseEMD::PairwiseEMD and setup(): the state after construction.
\* two_event_sets_ is not set by the constructor and not read before init.
\* the copy constructor of _EMD (implicit): every member is copied, the
\* shared_ptr elements of preprocessors_ as pointers to the same objects
EMDCopy(obj) == obj

\* the state a PairwiseEMD constructor leaves, its nt solver instances being
\* copies of proto: emd_objs_(num_threads_, proto), then setup
ConstructedFrom(proto, nt, pe, flattened, throw) ==
  /\ num_threads_ = nt
  /\ omp_dynamic_chunksize_ = 10
  /\ emd_objs_ = [t \in 0..(nt - 1) |-> EMDCopy(proto)]
  /\ print_every_ = (IF pe = 0 THEN -1 ELSE pe)
  /\ handler_ = FALSE
  /\ store_sym_emds_flattened_ = flattened
  /\ throw_on_error_ = throw
  /\ request_mode_ = FALSE
  /\ events_ = <<>> /\ emds_ = <<>> /\ full_emds_ = <<>> /\ error_messages_ = <<>>
  /\ nevA_ = 0 /\ nevB_ = 0 /\ num_emds_ = 0 /\ emd_counter_ = 0
  /\ emd_storage_ = "External"
  /\ two_event_sets_ = FALSE
  /\ pc = "idle" /\ begin = 0 /\ print_every = 0 /\ next_k = 0
  /\ workers = [t \in 0..(nt - 1) |-> Ready]
  /\ failure_mutex = -1
  /\ ret = NoRet /\ computed = {} /\ handled = EmptyBag /\ batch = NoBatch

\* PairwiseEMD(R, beta, norm, num_threads, print_every, ...): the instances
\* are copies of a temporary EMD
Constructed(nt, pe, flattened, throw) ==
  ConstructedFrom(NewEMD(FALSE, FALSE), nt, pe, flattened, throw)

\* an orchestrator that is constructed and never used
OrchUnused == Constructed(1, -10, TRUE, FALSE)

(***************************************************************************)
(* The stand-alone solver: construction, configuration, compute.          *)
(***************************************************************************)
SoloInit ==
  /\ tri = NoWalk
  /\ OrchUnused
  /\ emd \in {NewEMD(n, x) : n \in BOOLEAN, x \in BOOLEAN}
  /\ emd_call = NoCall

\* EMD::compute(ev0, ev1)
SoloCompute ==
  \E ev0 \in SoloEvents, ev1 \in SoloEvents, st \in EMDStatus, cost \in Costs :
    /\ emd' = EMDCompute(emd, ev0, ev1, st, cost)
    /\ emd_call' = [op |-> "compute", ev0 |-> ev0, ev1 |-> ev1,
                    solver |-> st, returned |-> emd'.status]
    /\ UNCHANGED <<tri, orchVars>>

\* preprocess(event) on a solver without registered preprocessors and with
\* norm off: ensure_weights leaves an event that carries weights as it is
Preprocess(obj, ev) == ev

\* (faulty variant: only the status Empty is escalated)
CheckEmdStatusOnlyEmpty(status) == status = Empty

\* (faulty variant: no status is escalated)
CheckEmdStatusNever(status) == FALSE

\* check_emd_status(status) raises: on every status but Success
CheckEmdStatus(status) == status # Success

\* _EMD::operator()(pev0, pev1), on a solver with norm off
SoloCall ==
  \E ev0 \in SoloEvents, ev1 \in SoloEvents, st \in EMDStatus, cost \in Costs :
    /\ ~emd.norm
    /\ emd' = EMDCompute(emd, Preprocess(emd, ev0), Preprocess(emd, ev1), st, cost)
    /\ emd_call' = [op |-> "call", ev0 |-> ev0, ev1 |-> ev1, solver |-> st] @@
                   (IF CheckEmdStatus(emd'.status)
                    THEN [outcome |-> "runtime_error"]
                    ELSE [outcome |-> "ok", value |-> emd'.emd])
    /\ UNCHANGED <<tri, orchVars>>

\* EMDBase::set_norm, as PairwiseEMD::set_norm calls it on every instance
SoloSetNorm ==
  \E b \in BOOLEAN :
    /\ emd' = [emd EXCEPT !.norm = b]
    /\ emd_call' = [op |-> "set_norm"]
    /\ UNCHANGED <<tri, orchVars>>

\* the arguments flow(i, j) is called with for a side of n points: the
\* first and last index, -1, and the first index outside on either end
FlowArgs(n) == {-(n + 1), -1, 0, n - 1, n}

\* network_simplex_.flows()[ind]: a value that names its offset
SolverFlow(ind) == ind + 1

\* (faulty variant: the offset is taken column-major)
FlowOffsetColumnMajor(i, j, n1) == i + j * n1

\* flow(i*n1() + j)
FlowOffset(i, j, n1) == i * n1 + j

\* _EMD::flow(i, j) and the raw flow(ind) it returns
SoloFlow ==
  \E i0 \in FlowArgs(emd.n0), j0 \in FlowArgs(emd.n1) :
    LET i == ResolveIndex(i0, emd.n0)
        j == ResolveIndex(j0, emd.n1)
        call == [op |-> "flow", i |-> i0, j |-> j0]
    IN /\ emd_call' =
            (IF i >= emd.n0 \/ j >= emd.n1 \/ i < 0 \/ j < 0
             THEN call @@ [outcome |-> "out_of_range"]
             ELSE call @@ [outcome |-> "ok",
                           value |-> SolverFlow(FlowOffset(i, j, emd.n1))
                                     * emd.scale])
       /\ UNCHANGED <<emd, tri, orchVars>>

(***************************************************************************)
(* The triangular enumeration, walked over k = 0 .. N(N-1)/2 - 1.          *)
(***************************************************************************)
EnumInit ==
  /\ tri \in {[nev |-> n, k |-> 0, out |-> <<>>] : n \in 0..MaxEnumN}
  /\ emd = NewEMD(FALSE, FALSE)
  /\ emd_call = NoCall
  /\ OrchUnused

\* one iteration of the loop over k in the self-pairs branch
EnumStep ==
  /\ tri.k < NumSelfPairs(tri.nev)
  /\ tri' = [tri EXCEPT !.k = @ + 1, !.out = Append(@, SelfPair(tri.k, tri.nev))]
  /\ UNCHANGED <<soloVars, orchVars>>

SpecEnum == EnumInit /\ [][EnumStep]_vars

SoloNext == SoloCompute \/ SoloSetNorm

SpecEMD == SoloInit /\ [][SoloNext]_vars

\* SpecFlow: a solver is configured, runs its first compute (directly or
\* through the call operator), and its flows are looked up
SolverUnused == emd \in {NewEMD(n, x) : n \in BOOLEAN, x \in BOOLEAN}

FirstSoloCompute == SolverUnused /\ SoloCompute

FirstSoloCall == SolverUnused /\ SoloCall

FlowNext == FirstSoloCompute \/ FirstSoloCall \/ SoloSetNorm \/ SoloFlow

SpecFlow == SoloInit /\ [][FlowNext]_vars

(***************************************************************************)
(* PairwiseEMD: the batch calls compute(events) and compute(eventsA,       *)
(* eventsB): init, the copy of the events, and compute() up to its loop.   *)
(***************************************************************************)
Internal == {"Full", "FullSymmetric", "FlattenedSymmetric"}

\* init(nev) or init(nevA, nevB), events_ set to evs, then the head of
\* compute(): the throw in request mode, the resolved print_every
BatchCall(two_sets, na, nb, num, evs) ==
  LET storage == StorageAfterInit(two_sets, handler_, request_mode_,
                                  store_sym_emds_flattened_, emd_storage_)
  IN /\ pc = "idle"
     /\ nevA_' = na /\ nevB_' = nb /\ two_event_sets_' = two_sets
     /\ num_emds_' = num
     /\ emd_storage_' = storage
     /\ computed' = {} /\ handled' = EmptyBag
     /\ batch' = [op |-> "compute", two_sets |-> two_sets,
                  handler |-> handler_, request_mode |-> request_mode_]
     /\ IF request_mode_
        THEN \* no clear(false), no resize; compute() throws
             /\ events_' = (IF two_sets THEN events_ \o evs ELSE evs)
             /\ ret' = [op |-> "compute", outcome |-> "runtime_error",
                        what |-> "request_mode"]
             /\ UNCHANGED <<emds_, full_emds_, error_messages_, emd_counter_,
                            frameVars>>
        ELSE /\ events_' = evs
             /\ emds_' = (IF storage \in Internal
                          THEN Zeros(EmdsSizeAfterInit(storage, na, nb, num))
                          ELSE <<>>)
             /\ full_emds_' = <<>>
             /\ error_messages_' = <<>>
             /\ emd_counter_' = 0
             /\ ret' = [op |-> "compute", outcome |-> "running"]
             /\ pc' = "loop"
             /\ begin' = 0
             /\ print_every' = ResolvedPrintEvery(print_every_, num)
             /\ UNCHANGED <<next_k, workers, failure_mutex>>
     /\ Len(events_') <= MaxEvents
     /\ UNCHANGED <<configVars, emd_objs_, soloVars, tri>>

\* compute(const EventVector & events)
ComputeSelf ==
  \E n \in 0..MaxEvents :
    BatchCall(FALSE, n, n, NumSelfPairs(n), EventsA(n))

\* compute(const EventVector & eventsA, const EventVector & eventsB)
ComputeCross ==
  \E na \in 0..MaxEvents, nb \in 0..MaxEvents :
    na + nb <= MaxEvents /\
    BatchCall(TRUE, na, nb, na * nb, EventsA(na) \o EventsB(nb))

\* the first flat index of a chunk (faulty variant: every chunk starts over
\* at flat index 0)
ChunkFirstRestart(b) == 0

\* the first flat index of a chunk: for (index_type k = begin; ...)
ChunkFirst(b) == b

(***************************************************************************)
(* PairwiseEMD::compute(): the loop over chunks and the parallel region.   *)
(***************************************************************************)
\* the while test holds: emd_counter_ advances and the parallel region opens
LoopEnter ==
  /\ pc = "loop"
  /\ LoopContinues(emd_counter_, num_emds_, throw_on_error_, Len(error_messages_))
  /\ emd_counter_' = Min(emd_counter_ + print_every, num_emds_)
  /\ next_k' = ChunkFirst(begin)
  /\ pc' = "parallel"
  /\ UNCHANGED <<configVars, emd_objs_, events_, emds_, full_emds_,
                 error_messages_, nevA_, nevB_, num_emds_, emd_storage_,
                 two_event_sets_, begin, print_every, workers, failure_mutex,
                 seenVars, soloVars, tri>>

\* the while test fails: compute() throws the recorded failure or returns
LoopExit ==
  /\ pc = "loop"
  /\ ~LoopContinues(emd_counter_, num_emds_, throw_on_error_, Len(error_messages_))
  /\ ret' = (IF throw_on_error_ /\ Len(error_messages_) > 0
             THEN [op |-> "compute", outcome |-> "runtime_error",
                   what |-> "failure", message |-> RaisedMessage(error_messages_)]
             ELSE [op |-> "compute", outcome |-> "ok"])
  /\ pc' = "idle" /\ begin' = 0 /\ print_every' = 0
  /\ UNCHANGED <<configVars, emd_objs_, storeVars, next_k, workers,
                 failure_mutex, computed, handled, batch,
                 soloVars, tri>>

\* the coordinates of flat index k in the running batch
PairOf(k) == IF two_event_sets_ THEN CrossPair(k, nevB_) ELSE SelfPair(k, nevA_)

\* the positions in events_ of the two events of pair <<i, j>>
EventA_of(pr) == pr[1]
EventB_of(pr) == IF two_event_sets_ THEN nevA_ + pr[2] ELSE pr[2]

\* eventA.event_weight() * eventB.event_weight()
WeightProduct(pr) ==
  At(events_, EventA_of(pr)).event_weight * At(events_, EventB_of(pr)).event_weight

\* (faulty variant: every thread works on the first instance)
SolverShared(thread) == 0

\* EMD & emd_obj(emd_objs_[thread]): the index of the instance thread uses
SolverOf(thread) == thread

\* the total cost the transport solver may report for the events at
\* positions a and b of events_: zero when both are the same event
SolverCosts(a, b) == IF a = b THEN {0} ELSE BatchCosts

\* thread t takes its next flat index (from its block, or a new block of
\* omp_dynamic_chunksize() indices) and runs emd_obj.compute on the pair
WorkerCompute(t) ==
  /\ pc = "parallel"
  /\ workers[t].pc = "ready"
  /\ workers[t].k < workers[t].hi \/ next_k < emd_counter_
  /\ LET grab == workers[t].k >= workers[t].hi
         k == IF grab THEN next_k ELSE workers[t].k
         hi == IF grab THEN Min(next_k + omp_dynamic_chunksize_, emd_counter_)
               ELSE workers[t].hi
         pr == PairOf(k)
     IN \E st \in BatchStatuses,
           cost \in SolverCosts(EventA_of(pr), EventB_of(pr)) :
          /\ emd_objs_' = [emd_objs_ EXCEPT ![SolverOf(t)] =
                             EMDCompute(@, At(events_, EventA_of(pr)),
                                        At(events_, EventB_of(pr)), st, cost)]
          /\ workers' = [workers EXCEPT ![t] =
                           [pc |-> IF st # Success THEN "lock" ELSE "store",
                            k |-> k, hi |-> hi]]
          /\ next_k' = (IF grab THEN hi ELSE next_k)
          /\ computed' = computed \cup
                           {[k |-> k, i |-> pr[1], j |-> pr[2], thread |-> t,
                             instance |-> SolverOf(t),
                             status |-> st, emd |-> emd_objs_'[SolverOf(t)].emd,
                             weight |-> WeightProduct(pr)]}
  /\ UNCHANGED <<configVars, storeVars, pc, begin, print_every, failure_mutex,
                 ret, handled, batch, soloVars, tri>>

\* whether a thread may take failure_mutex (faulty variant: the lock is
\* granted whoever holds it)
MutexFreeAlways(m) == TRUE

\* whether a thread may take failure_mutex: no thread holds it
MutexFree(m) == m = -1

\* std::lock_guard<std::mutex> failure_lock(failure_mutex)
WorkerLock(t) ==
  /\ pc = "parallel"
  /\ workers[t].pc = "lock"
  /\ MutexFree(failure_mutex)
  /\ failure_mutex' = t
  /\ workers' = [workers EXCEPT ![t].pc = "record"]
  /\ UNCHANGED <<configVars, emd_objs_, storeVars, pc, begin, print_every,
                 next_k, seenVars, soloVars, tri>>

\* record_failure(status, i, j), then the lock_guard goes out of scope
WorkerRecord(t) ==
  /\ pc = "parallel"
  /\ workers[t].pc = "record"
  /\ LET pr == PairOf(workers[t].k)
     IN error_messages_' = Append(error_messages_,
                                  FailureRecord(emd_objs_[SolverOf(t)].status,
                                                pr[1], pr[2]))
  /\ failure_mutex' = -1
  /\ workers' = [workers EXCEPT ![t].pc = "store"]
  /\ UNCHANGED <<configVars, emd_objs_, events_, emds_, full_emds_, nevA_,
                 nevB_, num_emds_, emd_counter_, emd_storage_, two_event_sets_,
                 pc, begin, print_every, next_k, seenVars, soloVars, tri>>

\* what the end of one loop iteration does with emd_obj.emd(): the writes
\* <<index, value>> to emds_
StoreWrites(k, pr, v) ==
  IF two_event_sets_ THEN <<<<k, v>>>>
  ELSE IF emd_storage_ = "FlattenedSymmetric"
       THEN <<<<index_symmetric(pr[1], pr[2], num_emds_, nevA_), v>>>>
  ELSE IF emd_storage_ = "FullSymmetric"
       THEN <<<<pr[2] * nevB_ + pr[1], v>>, <<pr[1] * nevB_ + pr[2], v>>>>
  ELSE <<>>

\* whether the end of one loop iteration calls the handler
CallsHandler ==
  IF two_event_sets_ THEN handler_ ELSE emd_storage_ = "External"

\* thread t hands emd_obj.emd() to the handler or stores it, and moves on
WorkerStore(t) ==
  /\ pc = "parallel"
  /\ workers[t].pc = "store"
  /\ LET k == workers[t].k
         pr == PairOf(k)
         v == emd_objs_[SolverOf(t)].emd
     IN IF CallsHandler
        THEN /\ handled' = handled (+) SetToBag({<<v, WeightProduct(pr)>>})
             /\ UNCHANGED emds_
        ELSE /\ emds_' = ApplyWrites(emds_, StoreWrites(k, pr, v))
             /\ UNCHANGED handled
  /\ workers' = [workers EXCEPT ![t] = [pc |-> "ready", k |-> @.k + 1, hi |-> @.hi]]
  /\ UNCHANGED <<configVars, emd_objs_, events_, full_emds_, error_messages_,
                 nevA_, nevB_, num_emds_, emd_counter_, emd_storage_,
                 two_event_sets_, pc, begin, print_every, next_k, failure_mutex,
                 ret, computed, batch, soloVars, tri>>

\* the end of the parallel region: every index below emd_counter_ is done;
\* begin = emd_counter_; print_update()
ChunkEnd ==
  /\ pc = "parallel"
  /\ next_k >= emd_counter_
  /\ \A t \in Threads : workers[t].pc = "ready" /\ workers[t].k >= workers[t].hi
  /\ begin' = emd_counter_
  /\ pc' = "loop"
  /\ next_k' = 0
  /\ workers' = [t \in Threads |-> Ready]
  /\ UNCHANGED <<configVars, emd_objs_, storeVars, print_every, failure_mutex,
                 seenVars, soloVars, tri>>

(***************************************************************************)
(* PairwiseEMD: configuration and clear                                    *)
(***************************************************************************)
\* set_external_emd_handler(handler)
SetHandler ==
  /\ pc = "idle"
  /\ handler_' = TRUE
  /\ ret' = NoRet
  /\ UNCHANGED <<num_threads_, omp_dynamic_chunksize_, print_every_,
                 store_sym_emds_flattened_, throw_on_error_, request_mode_,
                 emd_objs_, storeVars, frameVars, computed, handled, batch,
                 soloVars, tri>>

\* set_request_mode(mode)
SetRequestMode ==
  \E mode \in BOOLEAN :
    /\ pc = "idle"
    /\ request_mode_' = mode
    /\ ret' = NoRet
    /\ UNCHANGED <<num_threads_, omp_dynamic_chunksize_, print_every_, handler_,
                   store_sym_emds_flattened_, throw_on_error_,
                   emd_objs_, storeVars, frameVars, computed, handled, batch,
                 soloVars, tri>>

\* set_omp_dynamic_chunksize(chunksize)
SetOmpChunksize ==
  \E chunksize \in ChunksizeArgs :
    /\ pc = "idle"
    /\ omp_dynamic_chunksize_' = Abs(chunksize)
    /\ ret' = NoRet
    /\ UNCHANGED <<num_threads_, print_every_, handler_,
                   store_sym_emds_flattened_, throw_on_error_, request_mode_,
                   emd_objs_, storeVars, frameVars, computed, handled, batch,
                 soloVars, tri>>

\* (faulty variant: the registered preprocessors are kept)
EMDClearKeepsPreprocessors(obj) == [obj EXCEPT !.weights = <<>>]

\* _EMD::clear(): the preprocessors and the solver's buffers are released
EMDClear(obj) == [obj EXCEPT !.preprocessors = <<>>, !.weights = <<>>]

\* clear(free_memory)
ClearCall(free_memory) ==
  /\ pc = "idle"
  /\ events_' = <<>> /\ emds_' = <<>> /\ full_emds_' = <<>>
  /\ error_messages_' = <<>>
  /\ emd_storage_' = "External"
  /\ nevA_' = 0 /\ nevB_' = 0 /\ emd_counter_' = 0 /\ num_emds_' = 0
  /\ handler_' = (IF free_memory THEN FALSE ELSE handler_)
  /\ emd_objs_' = (IF free_memory
                   THEN [t \in Threads |-> EMDClear(emd_objs_[t])]
                   ELSE emd_objs_)
  /\ ret' = NoRet
  /\ UNCHANGED <<num_threads_, omp_dynamic_chunksize_, print_every_,
                 store_sym_emds_flattened_, throw_on_error_, request_mode_,
                 two_event_sets_, frameVars, computed, handled, soloVars, tri>>
  /\ batch' = NoBatch

Clear == \E free_memory \in BOOLEAN : ClearCall(free_memory)

(***************************************************************************)
(* PairwiseEMD: the queries emd(i, j, thread) and emds(flattened)          *)
(***************************************************************************)
\* the arguments the queries are called with: every index from -1 to the
\* first one past the end, and a thread argument where one is read
IndexArgsA == -1..nevA_
IndexArgsB == -1..nevB_
ThreadArgs == IF request_mode_ THEN -1..num_threads_ ELSE {0}

\* emd(i0, j0, thread)
EmdCall(i0, j0, thread) ==
    LET i == ResolveIndex(i0, nevA_)
        j == ResolveIndex(j0, nevB_)
        a == i
        b == IF two_event_sets_ THEN nevA_ + j ELSE j
        call == [op |-> "emd", i |-> i, j |-> j]
    IN
    /\ pc = "idle"
    /\ IF i >= nevA_ \/ j >= nevB_ \/ i < 0 \/ j < 0
       THEN /\ ret' = call @@ [outcome |-> "out_of_range"]
            /\ UNCHANGED emd_objs_
       ELSE IF request_mode_
       THEN IF thread >= num_threads_
            THEN /\ ret' = call @@ [outcome |-> "out_of_range"]
                 /\ UNCHANGED emd_objs_
            ELSE IF thread < 0 \/ ~InBounds(events_, a) \/ ~InBounds(events_, b)
            THEN \* emd_objs_[thread] or events_[...] outside the vector
                 /\ ret' = call @@ [outcome |-> "undefined"]
                 /\ UNCHANGED emd_objs_
            ELSE \E st \in BatchStatuses, cost \in SolverCosts(a, b) :
                   LET obj == EMDCompute(emd_objs_[thread], At(events_, a),
                                         At(events_, b), st, cost)
                   IN /\ emd_objs_' = [emd_objs_ EXCEPT ![thread] = obj]
                      /\ ret' = call @@
                           (IF CheckEmdStatus(obj.status)
                            THEN [outcome |-> "runtime_error", what |-> "status",
                                  solver |-> <<thread, a, b>>, handler |-> <<>>]
                            ELSE [outcome |-> "ok", value |-> obj.emd,
                                  solver |-> <<thread, a, b>>,
                                  handler |->
                                    IF handler_
                                    THEN <<<<obj.emd,
                                             At(events_, a).event_weight
                                             * At(events_, b).event_weight>>>>
                                    ELSE <<>>])
       ELSE /\ UNCHANGED emd_objs_
            /\ IF emd_storage_ = "External"
               THEN ret' = call @@ [outcome |-> "logic_error"]
               ELSE IF emd_storage_ = "FlattenedSymmetric"
               THEN IF i = j
                    THEN ret' = call @@ [outcome |-> "ok", value |-> 0]
                    ELSE LET idx == index_symmetric(i, j, num_emds_, nevA_)
                         IN IF InBounds(emds_, idx)
                            THEN ret' = call @@ [outcome |-> "ok",
                                                 value |-> At(emds_, idx)]
                            ELSE ret' = call @@ [outcome |-> "undefined"]
               ELSE IF InBounds(emds_, i * nevB_ + j)
                    THEN ret' = call @@ [outcome |-> "ok",
                                         value |-> At(emds_, i * nevB_ + j)]
                    ELSE ret' = call @@ [outcome |-> "undefined"]
    /\ UNCHANGED <<configVars, storeVars, frameVars, computed, handled,
                   batch, soloVars, tri>>

\* emd(i, j, thread) with any of its arguments
Emd ==
  \E i0 \in IndexArgsA, j0 \in IndexArgsB, thread \in ThreadArgs :
    EmdCall(i0, j0, thread)

\* emds(flattened)
Emds ==
  \E flattened \in BOOLEAN :
    /\ pc = "idle"
    /\ IF emd_storage_ = "External"
       THEN /\ ret' = [op |-> "emds", outcome |-> "logic_error"]
            /\ UNCHANGED full_emds_
       ELSE IF emd_storage_ = "FlattenedSymmetric" /\ ~flattened
       THEN IF DenseInBounds(nevA_, nevB_, num_emds_, emds_)
            THEN /\ full_emds_' = DenseView(full_emds_, nevA_, nevB_, num_emds_, emds_)
                 /\ ret' = [op |-> "emds", outcome |-> "ok", dense |-> TRUE,
                            value |-> full_emds_']
            ELSE /\ ret' = [op |-> "emds", outcome |-> "undefined"]
                 /\ UNCHANGED full_emds_
       ELSE /\ ret' = [op |-> "emds", outcome |-> "ok", dense |-> FALSE,
                       value |-> emds_]
            /\ UNCHANGED full_emds_
    /\ UNCHANGED <<configVars, emd_objs_, events_, emds_, error_messages_,
                   nevA_, nevB_, num_emds_, emd_counter_, emd_storage_,
                   two_event_sets_, frameVars, computed, handled, batch,
                 soloVars, tri>>

(***************************************************************************)
(* Spec: an orchestrator of the build without OpenMP (one thread), with    *)
(* the constructor's default print_every and throw_on_error and either     *)
(* storage flag, under any sequence of batch calls, queries, clear() and   *)
(* set_external_emd_handler with request mode left off.                    *)
(***************************************************************************)
Init ==
  /\ emd = NewEMD(FALSE, FALSE) /\ emd_call = NoCall /\ tri = NoWalk
  /\ \E flattened \in BOOLEAN : Constructed(1, -10, flattened, FALSE)

Worker == \E t \in Threads :
            WorkerCompute(t) \/ WorkerLock(t) \/ WorkerRecord(t) \/ WorkerStore(t)

Next ==
  \/ ComputeSelf \/ ComputeCross
  \/ LoopEnter \/ LoopExit \/ ChunkEnd
  \/ Worker
  \/ SetHandler \/ Clear
  \/ Emd \/ Emds

Spec == Init /\ [][Next]_vars

(***************************************************************************)
(* SpecRequest: the same orchestrator, on which request mode may also be   *)
(* switched on and off, with batches of at most MaxRequestEvents events.   *)
(***************************************************************************)
SmallComputeSelf == ComputeSelf /\ Len(events_') <= MaxRequestEvents
SmallComputeCross == ComputeCross /\ Len(events_') <= MaxRequestEvents

NextRequest ==
  \/ SmallComputeSelf \/ SmallComputeCross
  \/ LoopEnter \/ LoopExit \/ ChunkEnd
  \/ Worker
  \/ SetHandler \/ SetRequestMode \/ Clear
  \/ Emd \/ Emds

SpecRequest == Init /\ [][NextRequest]_vars

(***************************************************************************)
(* SpecQuery: the orchestrator without handler, on which batches of at     *)
(* most MaxRequestEvents events are run, request mode is switched on and   *)
(* off and single distances are queried.                                   *)
(***************************************************************************)
NextQuery ==
  \/ SmallComputeSelf \/ SmallComputeCross
  \/ LoopEnter \/ LoopExit \/ ChunkEnd
  \/ Worker
  \/ SetRequestMode
  \/ Emd

SpecQuery == Init /\ [][NextQuery]_vars

(***************************************************************************)
(* SpecDense: the orchestrator without handler, on which self-pairs        *)
(* batches of up to MaxEvents events are run, request mode is switched on  *)
(* and off and the dense view is read.                                     *)
(***************************************************************************)
NextDense ==
  \/ ComputeSelf
  \/ LoopEnter \/ LoopExit \/ ChunkEnd
  \/ Worker
  \/ SetRequestMode
  \/ Emds

SpecDense == Init /\ [][NextDense]_vars

(***************************************************************************)
(* Preprocessors.  A preprocessor object is named by its address, a        *)
(* positive number; preprocessors_ is the sequence of the addresses its    *)
(* shared_ptr elements point to.                                           *)
(***************************************************************************)
\* the addresses reachable from solver instance obj
PreprocessorsOf(obj) == {obj.preprocessors[q] : q \in 1..Len(obj.preprocessors)}

\* the addresses in use
Allocated ==
  PreprocessorsOf(emd) \cup UNION {PreprocessorsOf(emd_objs_[t]) : t \in Threads}

\* new Preproc<Self>(args...): the n-th address handed out from now on
NewPreprocessor(n) ==
  n + (IF Allocated = {} THEN 0
       ELSE CHOOSE a \in Allocated : \A b \in Allocated : b <= a)

\* PairwiseEMD::preprocess<P>(args...): every instance registers an object
\* of its own
OrchPreprocess ==
  /\ pc = "idle"
  /\ \A t \in Threads : Len(emd_objs_[t].preprocessors) < MaxPreprocessors
  /\ emd_objs_' = [t \in Threads |->
                     [emd_objs_[t] EXCEPT
                        !.preprocessors = Append(@, NewPreprocessor(t + 1))]]
  /\ ret' = [op |-> "preprocess"]
  /\ UNCHANGED <<configVars, storeVars, frameVars, computed, handled, batch,
                 soloVars, tri>>

(***************************************************************************)
(* SpecPreproc: an orchestrator of the OpenMP build with OmpThreads        *)
(* threads, constructed with its own solver or from an EMD instance on     *)
(* which preprocessors may already be registered; preprocessors and a      *)
(* handler are registered, request mode is switched, clear is called and   *)
(* self-pairs batches of at most MaxRequestEvents events are run.          *)
(***************************************************************************)
InitPreproc ==
  /\ emd_call = NoCall /\ tri = NoWalk
  /\ \E n \in 0..MaxPreprocessors, from_emd \in BOOLEAN :
       /\ emd = [NewEMD(FALSE, FALSE) EXCEPT !.preprocessors = [q \in 1..n |-> q]]
       /\ IF from_emd
          THEN ConstructedFrom(emd, OmpThreads, -10, TRUE, FALSE)
          ELSE Constructed(OmpThreads, -10, TRUE, FALSE)

NextPreproc ==
  \/ OrchPreprocess
  \/ SmallComputeSelf
  \/ LoopEnter \/ LoopExit \/ ChunkEnd
  \/ Worker
  \/ SetHandler \/ SetRequestMode \/ Clear

SpecPreproc == InitPreproc /\ [][NextPreproc]_vars

(***************************************************************************)
(* SpecOMP: an orchestrator of the OpenMP build with OmpThreads threads    *)
(* and any print_every, storage flag and throw_on_error, on which a        *)
(* handler and a chunk size may be set and batches are run while its       *)
(* solver instances are still as constructed.                              *)
(***************************************************************************)
InitOMP ==
  /\ emd = NewEMD(FALSE, FALSE) /\ emd_call = NoCall /\ tri = NoWalk
  /\ \E pe \in PrintEveryArgs, flattened \in BOOLEAN, throw \in BOOLEAN :
       Constructed(OmpThreads, pe, flattened, throw)

SolversUnused == \A t \in Threads : emd_objs_[t] = NewEMD(FALSE, FALSE)

FirstComputeSelf == SolversUnused /\ ComputeSelf
FirstComputeCross == SolversUnused /\ ComputeCross

NextOMP ==
  \/ FirstComputeSelf \/ FirstComputeCross
  \/ LoopEnter \/ LoopExit \/ ChunkEnd
  \/ Worker
  \/ SetHandler \/ SetOmpChunksize

SpecOMP == InitOMP /\ [][NextOMP]_vars

\* SpecOMPFair: the same, where a batch call that was entered keeps running:
\* the calling thread and the threads of the parallel region are scheduled
\* until the call returns or raises
BatchStep == LoopEnter \/ LoopExit \/ ChunkEnd \/ Worker

SpecOMPFair == InitOMP /\ [][NextOMP]_vars /\ WF_vars(BatchStep)

(***************************************************************************)
(* Claims about the triangular enumeration (SpecEnum).                     *)
(***************************************************************************)
Unordered(p) == {p[1], p[2]}

\* C1: over N >= 2 events the flat indices k = 0 .. N(N-1)/2 - 1 map
\* one-to-one onto the unordered pairs of distinct event indices below N: no
\* unordered pair is produced by two different k, and once the walk is
\* complete every unordered pair has been produced.
C1_EnumerationBijective ==
  tri.nev >= 2 =>
    /\ \A a \in 1..Len(tri.out) :
         /\ Cardinality(Unordered(tri.out[a])) = 2
         /\ Unordered(tri.out[a]) \subseteq 0..(tri.nev - 1)
    /\ \A a, b \in 1..Len(tri.out) :
         a # b => Unordered(tri.out[a]) # Unordered(tri.out[b])
    /\ tri.k = NumSelfPairs(tri.nev) =>
         \A i, j \in 0..(tri.nev - 1) :
           i # j => \E a \in 1..Len(tri.out) : Unordered(tri.out[a]) = {i, j}

\* the walk over N = 5 events has produced all ten pairs
C1_Witness == tri.nev = 5 /\ tri.k = 10 /\ Len(tri.out) = 10

(***************************************************************************)
(* Claims about the stand-alone solver (SpecEMD).                          *)
(***************************************************************************)
\* the last call was compute(A, B) with total(A) # total(B)
UnequalCompute ==
  /\ emd_call.op = "compute"
  /\ total_weight(emd_call.ev0) # total_weight(emd_call.ev1)

\* a padding point of weight |total(B) - total(A)| sits on the lighter side,
\* and both sides of the weight buffer sum to the same total
PaddedAndBalanced ==
  LET d == total_weight(emd_call.ev1) - total_weight(emd_call.ev0)
      len0 == Len(emd_call.ev0.weights)
      len1 == Len(emd_call.ev1.weights)
  IN /\ emd.weightdiff = d
     /\ d > 0 => /\ emd.extra = "Zero"
                 /\ emd.n0 = len0 + 1 /\ emd.n1 = len1
                 /\ emd.weights[emd.n0] = Frac(d, emd.scale)
     /\ d < 0 => /\ emd.extra = "One"
                 /\ emd.n0 = len0 /\ emd.n1 = len1 + 1
                 /\ emd.weights[emd.n0 + emd.n1] = Frac(-d, emd.scale)
     /\ Len(emd.weights) = emd.n0 + emd.n1 + 1
     /\ \A p \in 1..(emd.n0 + emd.n1) : emd.weights[p][2] = emd.scale
     /\ emd.scale > 0
     /\ SumNum(Side0(emd)) = SumNum(Side1(emd))

\* C4 as stated: for all events A, B with unequal total weight, compute adds
\* a padding point of weight |total(B) - total(A)| to the lighter event and
\* both sides of the weight buffer then sum to the same total.
C4_Original == UnequalCompute => PaddedAndBalanced

\* C4 amended: the same, for a solver with neither norm nor external_dists
\* set; with either set, compute adds no padding point.
C4_PaddingWhenNotNormed ==
  UnequalCompute =>
    IF emd.norm \/ emd.external_dists
    THEN /\ emd.extra = "Neither"
         /\ emd.n0 = Len(emd_call.ev0.weights)
         /\ emd.n1 = Len(emd_call.ev1.weights)
    ELSE PaddedAndBalanced

\* compute(<<1>>, <<1, 2>>) on a plain solver padded the first event
C4_Witness ==
  /\ UnequalCompute /\ ~emd.norm /\ ~emd.external_dists
  /\ emd.extra = "Zero" /\ emd.n0 = 2 /\ emd.weightdiff = 2

\* C5: for all events A, B with equal total weight and norm = false, compute
\* adds no padding point (tag Neither, n0 and n1 the events' own point
\* counts) and on Success the distance is the solver's total cost times
\* max(total(A), total(B)).
C5_EqualWeightsNoPadding ==
  (/\ emd_call.op = "compute"
   /\ total_weight(emd_call.ev0) = total_weight(emd_call.ev1)
   /\ ~emd.norm)
  => /\ emd.extra = "Neither"
     /\ emd.n0 = Len(emd_call.ev0.weights)
     /\ emd.n1 = Len(emd_call.ev1.weights)
     /\ emd.status = Success =>
          emd.emd = emd.total_cost * Max(total_weight(emd_call.ev0),
                                         total_weight(emd_call.ev1))

\* compute(<<2>>, <<1, 1>>) succeeded with cost 3 on a solver without norm
C5_Witness ==
  /\ emd_call.op = "compute" /\ ~emd.norm /\ emd.status = Success
  /\ emd_call.ev0.weights = <<2>> /\ emd_call.ev1.weights = <<1, 1>>
  /\ emd.total_cost = 3 /\ emd.emd = 6

(***************************************************************************)
(* Claims about the sequential orchestrator (Spec).                        *)
(***************************************************************************)
\* the solver runs of the batch that computed the unordered pair {i, j}
RunsOf(i, j) == {r \in computed : {r.i, r.j} = {i, j}}

\* C3: after a self-pairs batch in FlattenedSymmetric mode over N events, for
\* all i # j the condensed offsets index_symmetric(i, j) and
\* index_symmetric(j, i) are the same offset inside the result store, the
\* store holds there the distance the batch computed for the pair {i, j},
\* the dense view returned by emds() holds that value at (i, j) and at
\* (j, i), and emd(i, j) returns it.
C3_DenseRoundTrip ==
  (pc = "idle" /\ emd_storage_ = "FlattenedSymmetric") =>
    /\ ~two_event_sets_
    /\ \A i, j \in 0..(nevA_ - 1) :
         i # j =>
           LET idx == index_symmetric(i, j, num_emds_, nevA_)
           IN /\ InBounds(emds_, idx)
              /\ idx = index_symmetric(j, i, num_emds_, nevA_)
              /\ RunsOf(i, j) # {}
              /\ \A r \in RunsOf(i, j) : At(emds_, idx) = r.emd
              /\ (ret.op = "emds" /\ ret.outcome = "ok" /\ ret.dense) =>
                   /\ Len(ret.value) = nevA_ * nevB_
                   /\ At(ret.value, i * nevB_ + j) = At(emds_, idx)
                   /\ At(ret.value, j * nevB_ + i) = At(emds_, idx)
    /\ (ret.op = "emd" /\ ret.outcome # "out_of_range" /\ ret.i # ret.j) =>
         /\ ret.outcome = "ok"
         /\ ret.value = At(emds_, index_symmetric(ret.i, ret.j, num_emds_, nevA_))

\* the dense view of a batch over three events whose distances differ
C3_Witness ==
  /\ pc = "idle" /\ emd_storage_ = "FlattenedSymmetric" /\ nevA_ = 3
  /\ ret.op = "emds" /\ ret.outcome = "ok" /\ ret.dense
  /\ At(ret.value, 1) # At(ret.value, 2)
  /\ At(ret.value, 1) = At(ret.value, 3)
  /\ At(ret.value, 1) # 0

\* a batch call has returned normally and nothing was called since
BatchReturned == pc = "idle" /\ ret.op = "compute" /\ ret.outcome = "ok"

\* the bag of <<distance, weight product>> over the solver runs in rs
CallsFor(rs) ==
  [x \in {<<r.emd, r.weight>> : r \in rs} |->
     Cardinality({r \in rs : <<r.emd, r.weight>> = x})]

\* C7 (as stated): when a batch with an external handler set has returned,
\* the handler has been invoked exactly once for each pair whose compute
\* returned Success, with that pair's distance and weight product, and not
\* for a pair whose compute returned another status.
C7_Original ==
  (BatchReturned /\ batch.handler) =>
    handled = CallsFor({r \in computed : r.status = Success})

\* C8: once a batch has been run with an external handler set (and until
\* clear() or the next batch call), the storage mode is External and the
\* result store is empty, during the batch and after it, and emds() and a
\* non-request emd(i, j) with in-range indices raise a logic error. A batch
\* call made in request mode is rejected before it runs and is no batch.
C8_HandlerStoresNothing ==
  (batch # NoBatch /\ batch.handler /\ ~batch.request_mode) =>
    /\ emd_storage_ = "External"
    /\ emds_ = <<>> /\ full_emds_ = <<>>
    /\ ret.op = "emds" => ret.outcome = "logic_error"
    /\ (ret.op = "emd" /\ ~request_mode_ /\ ret.outcome # "out_of_range") =>
         ret.outcome = "logic_error"

\* emds() has raised after a batch that handed distances to the handler
C8_Witness ==
  /\ batch # NoBatch /\ batch.handler /\ ~batch.request_mode
  /\ handled # EmptyBag
  /\ ret.op = "emds" /\ ret.outcome = "logic_error"

(***************************************************************************)
(* Claims about the orchestrator with request mode (SpecRequest).          *)
(***************************************************************************)
\* C2 (as stated): in self-pairs mode no solver compute is run with the same
\* event index on both sides, neither by the batch nor by a query
\* emd(i, i), and an emd(i, i) that returns a value returns 0.
C2_Original ==
  ~two_event_sets_ =>
    /\ \A r \in computed : r.i # r.j
    /\ (ret.op = "emd" /\ ret.i = ret.j) =>
         /\ "solver" \notin DOMAIN ret
         /\ ret.outcome = "ok" => ret.value = 0

\* the storage mode the specification names for a batch init
ClaimedStorage(two_sets, handler, request_mode, flattened) ==
  IF handler \/ request_mode THEN "External"
  ELSE IF two_sets THEN "Full"
  ELSE IF flattened THEN "FlattenedSymmetric" ELSE "FullSymmetric"

\* C6 (as stated): after every batch init (and until clear() or the next
\* init, which alone change the storage mode) the storage mode is External
\* if a handler is registered or request mode is on, otherwise Full for
\* cross-pairs and FlattenedSymmetric or FullSymmetric for self-pairs
\* according to the store-flattened flag.
C6_Original ==
  batch # NoBatch =>
    emd_storage_ = ClaimedStorage(batch.two_sets, batch.handler,
                                  batch.request_mode, store_sym_emds_flattened_)

(***************************************************************************)
(* Claims about the chunked dispatch with raise-on-error (SpecOMP).        *)
(***************************************************************************)
\* a batch call has returned or raised and nothing was called since
BatchEnded ==
  pc = "idle" /\ ret.op = "compute" /\ ret.outcome \in {"ok", "runtime_error"}

\* the solver runs of the batch that returned a non-Success status
Failed == {r \in computed : r.status # Success}

\* the end of the chunk that holds flat index k
ChunkEndOf(k) ==
  LET size == ResolvedPrintEvery(print_every_, num_emds_)
  IN Min((k \div size + 1) * size, num_emds_)

\* C9: with raise-on-error set, no flat index at or beyond the end of the
\* current chunk is ever computed, and when the batch call ends every flat
\* index below the progress counter has been computed; if a compute failed
\* the call raises and the progress counter stands at the end of the chunk
\* of every failed pair (the chunk of the first failure was completed and
\* no later chunk was dispatched); if none failed it returns with every
\* pair computed.
C9_ChunkBoundaryOnly ==
  throw_on_error_ =>
    /\ \A r \in computed : r.k < emd_counter_
    /\ BatchEnded =>
         /\ {r.k : r \in computed} = 0..(emd_counter_ - 1)
         /\ Failed = {} => (ret.outcome = "ok" /\ emd_counter_ = num_emds_)
         /\ Failed # {} =>
              /\ ret.outcome = "runtime_error"
              /\ \A r \in Failed : ChunkEndOf(r.k) = emd_counter_

\* a batch of three pairs in chunks of two raised after its first chunk, in
\* which the first pair failed and the second pair was still computed
C9_Witness ==
  /\ throw_on_error_ /\ BatchEnded /\ ret.outcome = "runtime_error"
  /\ num_emds_ = 3 /\ emd_counter_ = 2
  /\ \E r \in Failed : r.k = 0
  /\ \E r \in computed : r.k = 1

\* C10: when a batch raises because raise-on-error is set, the raised
\* message is the first record of the failure log of that batch, and that
\* record holds the two event indices of a pair whose compute failed and
\* the status that compute returned.
C10_FirstRecordRaised ==
  (BatchEnded /\ ret.outcome = "runtime_error") =>
    /\ ret.what = "failure"
    /\ throw_on_error_
    /\ Len(error_messages_) > 0
    /\ ret.message = error_messages_[1]
    /\ \E r \in Failed : ret.message = FailureRecord(r.status, r.i, r.j)

\* a batch raised with two different records in its failure log
C10_Witness ==
  /\ BatchEnded /\ ret.outcome = "runtime_error"
  /\ Len(error_messages_) = 2
  /\ error_messages_[1] # error_messages_[2]

\* the positions of the failure log that hold the record of solver run r
RecordsOf(r) ==
  {q \in 1..Len(error_messages_) :
     error_messages_[q] = FailureRecord(r.status, r.i, r.j)}

\* C11: with raise-on-error disabled, a batch call ends by returning
\* normally with every flat index of the batch computed, whatever pairs
\* failed, and the failure log then holds exactly one record for each pair
\* whose compute returned a non-Success status and no other record.
C11_FailuresLoggedBatchCompletes ==
  (~throw_on_error_ /\ BatchEnded) =>
    /\ ret.outcome = "ok"
    /\ emd_counter_ = num_emds_
    /\ {r.k : r \in computed} = 0..(num_emds_ - 1)
    /\ Cardinality(computed) = num_emds_
    /\ Len(error_messages_) = Cardinality(Failed)
    /\ \A r \in Failed : Cardinality(RecordsOf(r)) = 1
    /\ \A q \in 1..Len(error_messages_) : \E r \in Failed : q \in RecordsOf(r)

\* a batch of three pairs in chunks of two returned normally although the
\* first pair failed, with one failed pair in each chunk and one success
C11_Witness ==
  /\ ~throw_on_error_ /\ BatchEnded /\ ret.outcome = "ok"
  /\ num_emds_ = 3 /\ ResolvedPrintEvery(print_every_, num_emds_) = 2
  /\ {r.k : r \in Failed} = {0, 2}
  /\ Len(error_messages_) = 2

\* C12 (as stated): a batch call made while request mode is enabled raises a
\* usage error, opens no dispatch loop, and leaves the event store, the
\* recorded sizes, the storage mode and the result store as they were.
C12_Original ==
  [][(request_mode_ /\ (SmallComputeSelf \/ SmallComputeCross)) =>
       /\ ret'.outcome = "runtime_error" /\ ret'.what = "request_mode"
       /\ pc' = "idle"
       /\ UNCHANGED <<events_, nevA_, nevB_, num_emds_, emd_storage_, emds_,
                      full_emds_>>]_vars

\* C13: every step of a query emd(i0, j0) (with the default thread, or any
\* thread argument from 0 up) answers for the indices i = i0 + Na if i0 < 0
\* and j = j0 + Nb if j0 < 0: if i is outside [0, Na) or j outside [0, Nb)
\* it raises out_of_range and nothing but the outcome changes; otherwise
\* the step is also a step of emd(i, j) with the resolved indices (so
\* emd(-1, -1) behaves as emd(Na-1, Nb-1)), it does not raise out_of_range
\* for a thread below the thread count, a solver run is on the events at
\* i and j, and a stored value is the one at the address of (i, j).
C13_NegativeIndexWraps ==
  [][(pc = "idle" /\ ret'.op = "emd") =>
       \A i0 \in IndexArgsA, j0 \in IndexArgsB, thread \in ThreadArgs \ {-1} :
         EmdCall(i0, j0, thread) =>
           LET i == IF i0 < 0 THEN i0 + nevA_ ELSE i0
               j == IF j0 < 0 THEN j0 + nevB_ ELSE j0
               inside == i \in 0..(nevA_ - 1) /\ j \in 0..(nevB_ - 1)
           IN /\ ret'.i = i /\ ret'.j = j
              /\ ~inside =>
                   /\ ret' = [op |-> "emd", i |-> i, j |-> j,
                              outcome |-> "out_of_range"]
                   /\ UNCHANGED <<emd_objs_, storeVars, handled>>
              /\ inside =>
                   /\ EmdCall(i, j, thread)
                   /\ thread < num_threads_ => ret'.outcome # "out_of_range"
                   /\ "solver" \in DOMAIN ret' =>
                        ret'.solver =
                          <<thread, i, IF two_event_sets_ THEN nevA_ + j ELSE j>>
                   /\ (ret'.outcome = "ok" /\ ~request_mode_) =>
                        ret'.value =
                          IF emd_storage_ = "FlattenedSymmetric"
                          THEN IF i = j THEN 0
                               ELSE At(emds_, index_symmetric(i, j, num_emds_, nevA_))
                          ELSE At(emds_, i * nevB_ + j)]_vars

\* a request-mode query has computed the pair of the last events of a
\* cross-pairs batch, the pair that emd(-1, -1) names
C13_Witness ==
  /\ ret.op = "emd" /\ ret.outcome = "ok" /\ request_mode_ /\ two_event_sets_
  /\ nevA_ = 1 /\ nevB_ = 1
  /\ ret.i = nevA_ - 1 /\ ret.j = nevB_ - 1
  /\ ret.solver = <<0, 0, 1>>

(***************************************************************************)
(* Claims about flow(i, j) of the stand-alone solver (SpecFlow).           *)
(***************************************************************************)
\* C14: for flow(i, j) on a solver with point counts n0, n1 (padding point
\* included), with i resolved as i + n0 and j as j + n1 when negative: the
\* lookup raises out_of_range exactly when a resolved index lies outside
\* [0, n0) x [0, n1), and otherwise returns the solver flow at the row-major
\* offset i*n1 + j multiplied by scale.
C14_FlowLookup ==
  emd_call.op = "flow" =>
    LET i == IF emd_call.i < 0 THEN emd_call.i + emd.n0 ELSE emd_call.i
        j == IF emd_call.j < 0 THEN emd_call.j + emd.n1 ELSE emd_call.j
        inside == i \in 0..(emd.n0 - 1) /\ j \in 0..(emd.n1 - 1)
    IN /\ emd_call.outcome = "out_of_range" <=> ~inside
       /\ inside => /\ emd_call.outcome = "ok"
                    /\ emd_call.value = SolverFlow(i * emd.n1 + j) * emd.scale

\* flow(-1, -1) on a solver with n0 = 2, n1 = 3 (one of them a padding
\* point) and scale 3 has returned the flow at offset 5, rescaled
C14_Witness ==
  /\ emd_call.op = "flow" /\ emd_call.i = -1 /\ emd_call.j = -1
  /\ emd.n0 = 2 /\ emd.n1 = 3 /\ emd.extra # "Neither" /\ emd.scale = 3
  /\ emd_call.outcome = "ok" /\ emd_call.value = SolverFlow(5) * 3

\* C15: compute returns the status the transport solver reported, for every
\* status value, and returns rather than raises; the call operator raises
\* when that status is not Success and otherwise returns the distance.
C15_StatusReturnedOrRaised ==
  /\ emd_call.op = "compute" =>
       /\ emd_call.returned = emd_call.solver
       /\ emd.status = emd_call.solver
  /\ emd_call.op = "call" =>
       /\ emd.status = emd_call.solver
       /\ emd_call.solver # Success => emd_call.outcome = "runtime_error"
       /\ emd_call.solver = Success =>
            /\ emd_call.outcome = "ok"
            /\ emd_call.value = emd.emd

\* the call operator has raised on the status MaxIterReached
C15_Witness ==
  /\ emd_call.op = "call" /\ emd_call.solver = MaxIterReached
  /\ emd_call.outcome = "runtime_error"

(***************************************************************************)
(* Claims about the workers of the parallel region (SpecOMP).              *)
(***************************************************************************)
\* the solver run thread t made for the flat index it is working on
OwnRun(t) == {r \in computed : r.k = workers[t].k /\ r.thread = t}

\* C16: every solver run of a batch was made by a thread on the instance
\* indexed by its own thread id, which is below the thread count and inside
\* emd_objs_; and from the compute of a thread to its use of the result (the
\* failure record and the handler call or store) its instance still holds
\* the status and distance of that compute: no other thread computes on it.
C16_OneInstancePerWorker ==
  /\ \A r \in computed :
       /\ r.instance = r.thread
       /\ r.thread \in 0..(num_threads_ - 1)
       /\ r.instance \in DOMAIN emd_objs_
  /\ \A t \in Threads :
       workers[t].pc \in {"lock", "record", "store"} =>
         /\ OwnRun(t) # {}
         /\ \A r \in OwnRun(t) :
              /\ emd_objs_[r.instance].status = r.status
              /\ emd_objs_[r.instance].emd = r.emd

\* thread 1 has computed a pair with another status than thread 0, while
\* thread 0 has not yet used the result of its compute
C16_Witness ==
  /\ num_threads_ = 2 /\ pc = "parallel"
  /\ workers[0].pc = "store" /\ workers[1].pc = "lock"
  /\ \E r \in OwnRun(0) : r.status = Success
  /\ \E r \in OwnRun(1) : r.status # Success

\* the addresses of emds_ that the loop iteration of solver run r writes
AddressesOf(r) ==
  LET ws == StoreWrites(r.k, <<r.i, r.j>>, r.emd)
  IN {ws[q][1] : q \in 1..Len(ws)}

\* C17: in a batch with internal storage (Full, FullSymmetric or
\* FlattenedSymmetric) every address written for a flat index is inside
\* the result store, the addresses written for two different flat indices
\* are disjoint, and when the batch call has ended every written address
\* holds the distance of the one flat index it belongs to.
C17_WritesDisjointInBounds ==
  emd_storage_ \in Internal =>
    /\ \A r \in computed :
         /\ AddressesOf(r) # {}
         /\ \A a \in AddressesOf(r) : InBounds(emds_, a)
    /\ \A r1, r2 \in computed :
         r1.k # r2.k => AddressesOf(r1) \cap AddressesOf(r2) = {}
    /\ BatchEnded =>
         \A r \in computed : \A a \in AddressesOf(r) : At(emds_, a) = r.emd

\* a FullSymmetric batch over three events has ended, with pairs stored by
\* both threads
C17_Witness ==
  /\ emd_storage_ = "FullSymmetric" /\ nevA_ = 3 /\ BatchEnded
  /\ Cardinality(computed) = 3
  /\ \E r1, r2 \in computed : r1.thread = 0 /\ r2.thread = 1

(***************************************************************************)
(* Claims about what a batch call leaves of the batch before it            *)
(* (SpecRequest).                                                          *)
(***************************************************************************)
\* the size of the result store that fits a batch in storage mode storage
StoreSizeFor(storage, na, nb) ==
  IF storage = "Full" THEN na * nb
  ELSE IF storage = "FullSymmetric" THEN na * nb
  ELSE IF storage = "FlattenedSymmetric" THEN NumSelfPairs(na)
  ELSE 0

\* C18 (as stated): every batch call, whatever came before it, leaves after
\* its init an empty failure log, a progress counter of 0 and a result
\* store sized for the new batch, and an event store that holds exactly
\* the events of the new batch (N for self-pairs, Na + Nb for cross-pairs).
C18_Original ==
  [][(SmallComputeSelf \/ SmallComputeCross) =>
       /\ error_messages_' = <<>>
       /\ emd_counter_' = 0
       /\ Len(emds_') = StoreSizeFor(emd_storage_', nevA_', nevB_')
       /\ events_' = (IF two_event_sets_'
                      THEN EventsA(nevA_') \o EventsB(nevB_')
                      ELSE EventsA(nevA_'))]_vars

(***************************************************************************)
(* Claims about the sequence of chunks (SpecOMP).                          *)
(***************************************************************************)
\* the flat indices some thread has computed so far in the batch
ComputedIndices == {r.k : r \in computed}

\* while a batch runs: the current chunk is the range begin..emd_counter_-1
\* inside the batch, no flat index beyond it has been computed, every flat
\* index before it has been computed, and every thread at work on a pair is
\* at work on a flat index of the current chunk
ChunksInOrder ==
  pc \in {"loop", "parallel"} =>
    /\ 0 <= begin /\ begin <= emd_counter_ /\ emd_counter_ <= num_emds_
    /\ \A r \in computed : r.k < emd_counter_
    /\ \A k \in 0..(begin - 1) : k \in ComputedIndices
    /\ \A t \in Threads :
         workers[t].pc # "ready" =>
           /\ begin <= workers[t].k /\ workers[t].k < emd_counter_
           /\ workers[t].k \in ComputedIndices

\* a batch call that returned normally computed every flat index of the
\* batch, each in one solver run
AllComputedOnce ==
  (BatchEnded /\ ret.outcome = "ok") =>
    /\ ComputedIndices = 0..(num_emds_ - 1)
    /\ Cardinality(computed) = num_emds_

\* a solver run of a thread is the run of a flat index no thread has
\* computed before in the batch
ComputesFreshIndex ==
  (\E t \in Threads : WorkerCompute(t)) =>
    /\ Cardinality(computed') = Cardinality(computed) + 1
    /\ Cardinality(ComputedIndices') = Cardinality(ComputedIndices) + 1

\* C19: in a batch the chunks are contiguous ranges of the flat index
\* dispatched one after another in increasing order: no flat index of a
\* later chunk is computed before every flat index of the chunks before it
\* has finished, no flat index is computed twice, and a batch that returns
\* normally has computed every flat index in [0, total_pairs) exactly once.
C19_ChunksSequential ==
  /\ [](ChunksInOrder /\ AllComputedOnce)
  /\ [][ComputesFreshIndex]_vars

\* the second chunk of a batch of three pairs in chunks of two is running:
\* the two threads shared the first chunk and one is at work on the last
\* pair
C19_Witness ==
  /\ pc = "parallel" /\ num_emds_ = 3 /\ begin = 2 /\ emd_counter_ = 3
  /\ \E r0, r1 \in computed : r0.k = 0 /\ r1.k = 1 /\ r0.thread # r1.thread
  /\ \E t \in Threads : workers[t].pc = "store" /\ workers[t].k = 2

(***************************************************************************)
(* Claims about the scale of a solver instance (SpecEMD).                  *)
(***************************************************************************)
\* C20 (as stated): whenever compute has run with norm set, the scale in
\* force after the call is 1, whatever computes and configuration changes
\* came before it on the solver instance.
C20_Original ==
  (emd_call.op = "compute" /\ emd.norm) => emd.scale = 1

(***************************************************************************)
(* Claims about the diagonal of the dense view (SpecDense).                *)
(***************************************************************************)
\* C21 (as stated): every call of emds() in FlattenedSymmetric mode returns
\* an N x N matrix whose diagonal entries (i, i) are all zero, whatever
\* operations came before the call.
C21_Original ==
  (ret.op = "emds" /\ ret.outcome = "ok" /\ ret.dense) =>
    /\ Len(ret.value) = nevA_ * nevA_
    /\ \A i \in 0..(nevA_ - 1) : At(ret.value, i * nevA_ + i) = 0

(***************************************************************************)
(* Claims about the lock around the failure log (SpecOMP).                 *)
(***************************************************************************)
\* the threads that are inside record_failure
Appending == {t \in Threads : workers[t].pc = "record"}

\* the threads whose compute failed and whose record is not yet in the log
Pending == {t \in Threads : workers[t].pc \in {"lock", "record"}}

\* C22: appends to the failure log are mutually exclusive under every
\* interleaving: at most one thread is inside record_failure at a time and
\* it is the holder of the mutex; no record is lost: at every moment the
\* log holds one record for each failed compute of the batch except those
\* of threads still waiting for or holding the mutex, so between chunks
\* (and when the batch call ends) the log holds exactly one record for each
\* pair computed so far whose compute failed.
C22_AppendsExclusive ==
  /\ Cardinality(Appending) <= 1
  /\ \A t \in Threads : (failure_mutex = t) <=> (t \in Appending)
  /\ failure_mutex \in Threads \cup {-1}
  /\ (ret.op = "compute" /\ ~batch.request_mode) =>
       /\ Len(error_messages_) = Cardinality(Failed) - Cardinality(Pending)
       /\ pc # "parallel" =>
            /\ Pending = {}
            /\ Len(error_messages_) = Cardinality({r \in Failed : r.k < emd_counter_})
            /\ \A r \in Failed : Cardinality(RecordsOf(r)) = 1

\* two computes of one chunk failed at the same time: one thread is inside
\* record_failure and the other waits for the mutex
C22_Witness ==
  /\ pc = "parallel"
  /\ \E t1, t2 \in Threads :
       /\ t1 # t2
       /\ workers[t1].pc = "record" /\ failure_mutex = t1
       /\ workers[t2].pc = "lock"

(***************************************************************************)
(* Claims about the order of the coordinates of a pair (SpecEnum).         *)
(***************************************************************************)
\* C23 (as stated): every coordinate pair (i, j) the triangular enumeration
\* produces for a flat index k in [0, N(N-1)/2) satisfies i < j < N.
C23_Original ==
  \A a \in 1..Len(tri.out) :
    tri.out[a][1] < tri.out[a][2] /\ tri.out[a][2] < tri.nev

\* C23 (amended): every coordinate pair (i, j) the triangular enumeration
\* produces for a flat index k in [0, N(N-1)/2) satisfies 0 <= j < i < N:
\* the first coordinate is the larger one, in the rows that are reflected
\* and in those that are not.
C23_LowerTriangle ==
  \A a \in 1..Len(tri.out) :
    /\ 0 <= tri.out[a][2]
    /\ tri.out[a][2] < tri.out[a][1]
    /\ tri.out[a][1] < tri.nev

\* the complete walk over N = 4 events, whose first pair is not reflected
\* and whose second pair is
C23_Witness ==
  /\ tri.nev = 4 /\ Len(tri.out) = 6
  /\ tri.out[1] = <<1, 0>> /\ tri.out[2] = <<3, 2>>

(***************************************************************************)
(* Claims about the preprocessors of the solver instances (SpecPreproc).   *)
(***************************************************************************)
\* C24 (as stated): each solver instance of an orchestrator holds its own
\* preprocessor objects: no preprocessor object is reachable from two
\* different solver instances, whether it was registered through the
\* orchestrator or on the EMD instance the orchestrator was constructed
\* from.
C24_Original ==
  \A t1, t2 \in Threads :
    t1 # t2 =>
      PreprocessorsOf(emd_objs_[t1]) \cap PreprocessorsOf(emd_objs_[t2]) = {}

(***************************************************************************)
(* Claims about request-mode queries with a handler (SpecRequest).         *)
(***************************************************************************)
\* the last call was a request-mode query that ran a solver
QueryComputed == ret.op = "emd" /\ "solver" \in DOMAIN ret

\* what a request-mode query with a handler set leaves: on Success one
\* handler call with the distance and the weight product of the two events,
\* and the distance returned; otherwise an error raised and no handler call
HandlerOncePerSuccess ==
  (QueryComputed /\ handler_) =>
    LET obj == emd_objs_[ret.solver[1]]
        eventA == At(events_, ret.solver[2])
        eventB == At(events_, ret.solver[3])
    IN IF obj.status = Success
       THEN /\ ret.outcome = "ok"
            /\ ret.value = obj.emd
            /\ ret.handler =
                 <<<<obj.emd, eventA.event_weight * eventB.event_weight>>>>
       ELSE /\ ret.outcome = "runtime_error"
            /\ ret.handler = <<>>

\* a request-mode query changes neither the failure log nor the result
\* store
QueryStoresNothing ==
  (request_mode_ /\ ret'.op = "emd") =>
    /\ error_messages_' = error_messages_
    /\ emds_' = emds_
    /\ full_emds_' = full_emds_

C26_Original ==
  [][(pc = "idle" /\ request_mode_ /\ ret'.op = "emd") =>
       \A i0 \in IndexArgsA, j0 \in IndexArgsB, thread \in ThreadArgs :
         EmdCall(i0, j0, thread) =>
           /\ thread \notin 0..(num_threads_ - 1) =>
                ret'.outcome = "out_of_range"
           /\ ret'.outcome \notin {"out_of_range", "runtime_error"} =>
                /\ "solver" \in DOMAIN ret'
                /\ ret'.solver[1] = thread
                /\ \A t \in Threads \ {thread} : emd_objs_'[t] = emd_objs_[t]]_vars

(***************************************************************************)
(* Claims about the termination of the dispatch (SpecOMPFair).             *)
(***************************************************************************)
\* while a batch runs the resolved chunk size is at least 1 and the
\* progress counter lies between 0 and total_pairs; a batch call that
\* returns normally leaves the counter at total_pairs
CounterInRange ==
  /\ pc \in {"loop", "parallel"} => print_every >= 1
  /\ 0 <= emd_counter_ /\ emd_counter_ <= num_emds_
  /\ (BatchEnded /\ ret.outcome = "ok") => emd_counter_ = num_emds_

\* the dispatch of a chunk strictly increases the progress counter
ChunkAdvances == LoopEnter => emd_counter_' > emd_counter_

\* C27: for every print_every given to the constructor (positive, negative
\* or zero) and every total_pairs >= 0 the batch dispatch terminates: the
\* resolved chunk size is at least 1, each chunk strictly increases the
\* progress counter, the counter never exceeds total_pairs, a batch call
\* that is not aborted returns with the counter equal to total_pairs, and
\* every batch call that was entered comes to its end.
C27_DispatchTerminates ==
  /\ []CounterInRange
  /\ [][ChunkAdvances]_vars
  /\ (pc # "idle") ~> (pc = "idle")

\* a batch of three pairs with print_every -2, whose chunk size of 2 is the
\* quotient 1 rounded up, has returned with every pair computed
C27_Witness ==
  /\ BatchEnded /\ ret.outcome = "ok"
  /\ print_every_ = -2 /\ num_emds_ = 3 /\ emd_counter_ = 3
  /\ Cardinality(computed) = 3

(***************************************************************************)
(* Claims about what clear changes (SpecPreproc).                          *)
(***************************************************************************)
\* the preprocessors of every solver instance are as they were
PreprocessorsKept ==
  \A t \in Threads : emd_objs_'[t].preprocessors = emd_objs_[t].preprocessors

\* what a step of clear(free_memory) or of a batch call changes of the
\* handler, the preprocessors, the request-mode flag and the thread count
ClearEffect ==
  /\ ClearCall(TRUE) =>
       /\ ~handler_'
       /\ \A t \in Threads : emd_objs_'[t].preprocessors = <<>>
  /\ ClearCall(FALSE) => (handler_' = handler_ /\ PreprocessorsKept)
  /\ SmallComputeSelf => (handler_' = handler_ /\ PreprocessorsKept)
  /\ (ClearCall(TRUE) \/ ClearCall(FALSE)) =>
       (request_mode_' = request_mode_ /\ num_threads_' = num_threads_)
  /\ (SmallComputeSelf /\ ~handler_ /\ ~request_mode_) =>
       /\ emd_storage_' \in Internal
       /\ Len(emds_') = StoreSizeFor(emd_storage_', nevA_', nevB_')

\* a batch that ran without handler has its distances in the result store
StoredInternally ==
  (BatchEnded /\ batch # NoBatch /\ ~batch.handler /\ ~batch.request_mode) =>
    /\ emd_storage_ \in Internal
    /\ \A r \in computed :
         At(emds_, index_symmetric(r.i, r.j, num_emds_, nevA_)) = r.emd

\* C28: clear(free_memory = true) unregisters the external handler and
\* discards every solver's preprocessors, so that a following batch (run
\* with request mode off) stores its results internally;
\* clear(free_memory = false) and a batch's init leave the registered
\* handler and the preprocessors unchanged; no form of clear changes the
\* request-mode flag or the thread count.
C28_ClearFrame ==
  /\ [][ClearEffect]_vars
  /\ []StoredInternally

\* clear(true) has emptied the solver instances after a first batch that
\* thread 1 computed, and the batch that followed, computed by thread 0,
\* has its distance in the result store
C28_Witness ==
  /\ BatchEnded /\ ret.outcome = "ok" /\ ~handler_
  /\ emd_objs_[1].n0 > 0 /\ emd_objs_[1].weights = <<>>
  /\ emd_objs_[1].preprocessors = <<>>
  /\ emd_storage_ = "FlattenedSymmetric" /\ Len(emds_) = 1
  /\ \E r \in computed : r.thread = 0 /\ At(emds_, 0) = r.emd

====
